---- MODULE Spec2Model ----
(***************************************************************************)
(* Model of src/utils/runPkgManagerInstall.ts.                             *)
(*                                                                         *)
(* A string is a sequence of one-character strings, so that the template   *)
(* literal and Array.prototype.join are concatenations whose result can be *)
(* taken apart again (split on spaces, shell words).                       *)
(***************************************************************************)
EXTENDS Integers, Sequences, FiniteSets, TLC

VARIABLES packageManager, devMode, projectDir, packages,
          pc, execaCmd, execaCwd, child, exitCode, spawns, result

vars == <<packageManager, devMode, projectDir, packages,
          pc, execaCmd, execaCwd, child, exitCode, spawns, result>>

(* ---------------------------- bounds ----------------------------------- *)
MaxPkgs == 2
MaxExit == 2
MaxSpawns == 3

(* ---------------------------- strings ---------------------------------- *)
SP == " "
npm == <<"n", "p", "m">>
yarn == <<"y", "a", "r", "n">>
pnpm == <<"p", "n", "p", "m">>
bun == <<"b", "u", "n">>
deno == <<"d", "e", "n", "o">>
add == <<"a", "d", "d">>
install == <<"i", "n", "s", "t", "a", "l", "l">>
DashD == <<"-", "D">>
zod == <<"z", "o", "d">>
eslint == <<"e", "s", "l", "i", "n", "t">>
zodAt3 == <<"z", "o", "d", "@", "3">>

\* the closed set of the PackageManager type
Supported == {npm, yarn, pnpm, bun}
\* what a caller can pass at run time: the type is erased, any string arrives
Managers == Supported \cup {deno}
PackageNames == {zod, eslint, zodAt3}
ProjectDirs == {"/tmp/proj", "."}
ExitCodes == 0..MaxExit

SeqsUpTo(S, n) == UNION {[1..k -> S] : k \in 0..n}

(* ------------------- runPkgManagerInstall, lines 12-17 ----------------- *)
installCmdAlwaysInstall(pm) == pm \o <<SP>> \o install

installCmdFallback(pm) ==
    IF pm = yarn THEN pm \o <<SP>> \o add
    ELSE IF pm \in Supported THEN pm \o <<SP>> \o install
    ELSE npm \o <<SP>> \o install

installCmd(pm) ==
    IF pm = yarn THEN pm \o <<SP>> \o add ELSE pm \o <<SP>> \o install

flagSwapped(dm) == IF dm THEN <<>> ELSE DashD

flag(dm) == IF dm THEN DashD ELSE <<>>

RECURSIVE joinFrom(_, _)
joinFrom(arr, i) ==
    IF i > Len(arr) THEN <<>>
    ELSE IF i = Len(arr) THEN arr[i]
    ELSE arr[i] \o <<SP>> \o joinFrom(arr, i + 1)

Reverse(arr) == [i \in 1..Len(arr) |-> arr[Len(arr) + 1 - i]]

joinReversed(arr) == joinFrom(Reverse(arr), 1)

\* Array.prototype.join(" ")
join(arr) == joinFrom(arr, 1)

fullCmdNoPlaceholder(pm, dm, pkgs) ==
    IF flag(dm) = <<>>
    THEN installCmd(pm) \o <<SP>> \o join(pkgs)
    ELSE installCmd(pm) \o <<SP>> \o flag(dm) \o <<SP>> \o join(pkgs)

\* `${installCmd} ${flag} ${packages.join(" ")}`
fullCmd(pm, dm, pkgs) ==
    installCmd(pm) \o <<SP>> \o flag(dm) \o <<SP>> \o join(pkgs)

(* ------------------------- reading a command --------------------------- *)
RECURSIVE SplitFrom(_, _, _)
SplitFrom(s, i, cur) ==
    IF i > Len(s) THEN <<cur>>
    ELSE IF s[i] = SP THEN <<cur>> \o SplitFrom(s, i + 1, <<>>)
    ELSE SplitFrom(s, i + 1, Append(cur, s[i]))

\* the fields between single spaces, empty fields kept
Fields(s) == SplitFrom(s, 1, <<>>)

NonEmpty(w) == w # <<>>

\* the words a shell makes of the command line
Words(s) == SelectSeq(Fields(s), NonEmpty)

IsPrefix(p, s) == Len(p) <= Len(s) /\ SubSeq(s, 1, Len(p)) = p

NoResult == [kind |-> "none", code |-> -1]
Undefined == [kind |-> "undefined", code |-> -1]
ExecError(c) == [kind |-> "ProcessExecutionError", code |-> c]
LaunchError == [kind |-> "ExecutableNotFoundError", code |-> -1]

(* ------------------------------ execa ---------------------------------- *)
\* state of the promise execa returned
ExecaPromise ==
    CASE child = "none" -> "none"
      [] child = "running" -> "pending"
      [] child = "exited" /\ exitCode = 0 -> "fulfilled"
      [] OTHER -> "rejected"

ExecaReason == IF child = "launchFailed" THEN LaunchError ELSE ExecError(exitCode)

(* ------------------------------ actions -------------------------------- *)
Init ==
    /\ packageManager \in Managers
    /\ devMode \in BOOLEAN
    /\ projectDir \in ProjectDirs
    /\ packages \in SeqsUpTo(PackageNames, MaxPkgs)
    /\ pc = "start"
    /\ execaCmd = <<>>
    /\ execaCwd = ""
    /\ child = "none"
    /\ exitCode = -1
    /\ spawns = 0
    /\ result = NoResult

\* lines 10-18, up to the suspension at await: build the command, hand it to
\* execa with cwd = projectDir; the child starts or cannot be launched
runPkgManagerInstall ==
    /\ pc = "start"
    /\ execaCmd' = fullCmd(packageManager, devMode, packages)
    /\ execaCwd' = projectDir
    /\ spawns' = spawns + 1
    /\ \E launched \in BOOLEAN :
          child' = IF launched THEN "running" ELSE "launchFailed"
    /\ pc' = "await"
    /\ UNCHANGED <<packageManager, devMode, projectDir, packages, exitCode, result>>

\* the child process terminates with an exit status
ChildExit ==
    /\ child = "running"
    /\ \E c \in ExitCodes : exitCode' = c
    /\ child' = "exited"
    /\ UNCHANGED <<packageManager, devMode, projectDir, packages,
                   pc, execaCmd, execaCwd, spawns, result>>

AwaitFulfilledNoWait ==
    /\ pc = "await"
    /\ ExecaPromise \in {"pending", "fulfilled"}
    /\ pc' = "resolved"
    /\ result' = Undefined
    /\ UNCHANGED <<packageManager, devMode, projectDir, packages,
                   execaCmd, execaCwd, child, exitCode, spawns>>

\* line 18-19: the awaited promise fulfils, the async function returns undefined
AwaitFulfilled ==
    /\ pc = "await"
    /\ ExecaPromise = "fulfilled"
    /\ pc' = "resolved"
    /\ result' = Undefined
    /\ UNCHANGED <<packageManager, devMode, projectDir, packages,
                   execaCmd, execaCwd, child, exitCode, spawns>>

AwaitRejectedSwallow ==
    /\ pc = "await"
    /\ ExecaPromise = "rejected"
    /\ pc' = "resolved"
    /\ result' = Undefined
    /\ UNCHANGED <<packageManager, devMode, projectDir, packages,
                   execaCmd, execaCwd, child, exitCode, spawns>>

AwaitRejectedRetry ==
    /\ pc = "await"
    /\ ExecaPromise = "rejected"
    /\ IF spawns < MaxSpawns
       THEN /\ spawns' = spawns + 1
            /\ child' = "running"
            /\ UNCHANGED <<pc, result>>
       ELSE /\ pc' = "rejected"
            /\ result' = ExecaReason
            /\ UNCHANGED <<spawns, child>>
    /\ UNCHANGED <<packageManager, devMode, projectDir, packages,
                   execaCmd, execaCwd, exitCode>>

\* line 18: the awaited promise rejects, nothing catches it, the async
\* function rejects with the same reason
AwaitRejected ==
    /\ pc = "await"
    /\ ExecaPromise = "rejected"
    /\ pc' = "rejected"
    /\ result' = ExecaReason
    /\ UNCHANGED <<packageManager, devMode, projectDir, packages,
                   execaCmd, execaCwd, child, exitCode, spawns>>

Next ==
    \/ runPkgManagerInstall
    \/ ChildExit
    \/ AwaitFulfilled
    \/ AwaitRejected

Spec == Init /\ [][Next]_vars

TypeOK ==
    /\ packageManager \in Managers
    /\ devMode \in BOOLEAN
    /\ projectDir \in ProjectDirs
    /\ pc \in {"start", "await", "resolved", "rejected"}
    /\ child \in {"none", "running", "exited", "launchFailed"}
    /\ exitCode \in ExitCodes \cup {-1}
    /\ spawns \in 0..MaxSpawns

Called == pc # "start"
Settled == pc \in {"resolved", "rejected"}

verb(pm) == IF pm = yarn THEN add ELSE install
flagWords == IF devMode THEN <<DashD>> ELSE <<>>

(* ------------------------------ claims --------------------------------- *)

C2_Original ==
    Called =>
        Fields(execaCmd) = <<packageManager, verb(packageManager)>>
                              \o flagWords \o packages

\* C2 (amended): the command is four parts joined by exactly one space each:
\* manager and verb, the flag part, and the package names joined by single
\* spaces; the flag part is "-D" when devMode is true and the empty string
\* when devMode is false (an empty placeholder, two adjacent spaces), and the
\* package part is the empty string when packages is empty.
C2_FourParts ==
    Called =>
        Fields(execaCmd) =
            <<packageManager, verb(packageManager),
              IF devMode THEN DashD ELSE <<>> >>
            \o (IF packages = <<>> THEN << <<>> >> ELSE packages)

C2_Witness ==
    /\ Called
    /\ ~devMode
    /\ packages # <<>>
    /\ \E i \in 1..(Len(execaCmd) - 1) : execaCmd[i] = SP /\ execaCmd[i + 1] = SP

\* C3: for a supported manager other than yarn the command starts with
\* "<manager> install", for yarn it starts with "yarn add".
C3_BaseSubcommand ==
    (Called /\ packageManager \in Supported) =>
        IF packageManager = yarn
        THEN IsPrefix(yarn \o <<SP>> \o add, execaCmd)
        ELSE IsPrefix(packageManager \o <<SP>> \o install, execaCmd)

C3_Witness ==
    /\ Called
    /\ packageManager = yarn
    /\ SubSeq(execaCmd, 1, 8) = yarn \o <<SP>> \o add

\* C4: the word right after the install/add subcommand is "-D" if and only if
\* devMode is true; with devMode false no word of the command is "-D".
C4_DevFlag ==
    Called =>
        LET w == Words(execaCmd) IN
        /\ devMode => (Len(w) >= 3 /\ w[3] = DashD)
        /\ ~devMode => \A i \in 1..Len(w) : w[i] # DashD

C4_Witness ==
    /\ Called
    /\ devMode
    /\ packages # <<>>
    /\ Words(execaCmd)[3] = DashD

\* C5: for a non-empty packages sequence the words of the command after the
\* subcommand and the flag are exactly the package names, in input order,
\* none repeated and none missing.
C5_PackagesInOrder ==
    (Called /\ packages # <<>>) =>
        LET w == Words(execaCmd)
            n == Len(packages)
        IN /\ Len(w) = 2 + Len(flagWords) + n
           /\ SubSeq(w, Len(w) - n + 1, Len(w)) = packages

C5_Witness ==
    /\ Called
    /\ Len(packages) = 2
    /\ packages[1] # packages[2]
    /\ Len(Words(execaCmd)) >= 4

\* C6: a settled call is resolved with undefined exactly when the child exited
\* with status 0, and is otherwise rejected with the error of the failed child
\* (non-zero status, carrying that status, or failure to launch).
C6_TwoOutcomes ==
    Settled =>
        /\ pc = "resolved" <=> (child = "exited" /\ exitCode = 0)
        /\ pc = "resolved" => result = Undefined
        /\ pc = "rejected" =>
              /\ result.kind \in {"ProcessExecutionError", "ExecutableNotFoundError"}
              /\ child = "exited" => (result.code = exitCode /\ exitCode # 0)
              /\ child = "launchFailed" => result = LaunchError

C6_Witness ==
    /\ pc = "rejected"
    /\ child = "exited"
    /\ exitCode = 1
    /\ result.code = 1

\* C7: a call spawns at most one child process, also when that process fails.
C7_OneSpawn ==
    /\ spawns <= 1
    /\ Settled => spawns = 1

C7_Witness ==
    /\ pc = "rejected"
    /\ spawns = 1
    /\ exitCode > 0

\* C8: a call is never settled while its child process is running.
C8_SettledAfterChild ==
    Settled => child \in {"exited", "launchFailed"}

C8_Witness ==
    /\ pc = "resolved"
    /\ child = "exited"

\* C10 (as stated): with empty packages a command without package words is
\* still run, and for npm with devMode false it is "npm install " (one
\* trailing space).
C10_Original ==
    (Called /\ packages = <<>>) =>
        /\ spawns = 1
        /\ child # "none"
        /\ Words(execaCmd) = <<packageManager, verb(packageManager)>> \o flagWords
        /\ (packageManager = npm /\ ~devMode) =>
              execaCmd = npm \o <<SP>> \o install \o <<SP>>

\* C10 (amended): with empty packages a command without package words is
\* still run, and for npm with devMode false it is "npm install  " (two
\* trailing spaces).
C10_EmptyPackages ==
    (Called /\ packages = <<>>) =>
        /\ spawns = 1
        /\ child # "none"
        /\ Words(execaCmd) = <<packageManager, verb(packageManager)>> \o flagWords
        /\ (packageManager = npm /\ ~devMode) =>
              execaCmd = npm \o <<SP>> \o install \o <<SP, SP>>

C10_Witness ==
    /\ Called
    /\ packages = <<>>
    /\ packageManager = npm
    /\ ~devMode
    /\ child = "running"
====
